---- MODULE Spec2Model ----
(***************************************************************************)
(* Model of the validators of anytax/preset-validation.  Spec is the       *)
(* German tax-number (Steuernummer) validation, PresetSpec the validators  *)
(* of preset-validation.helper.ts, ChecksumSpec the exported functions     *)
(* validatePruefziffer and normalizeTo13Digits.                            *)
(*                                                                         *)
(* A string is a sequence of characters, and a character is a number: a    *)
(* decimal digit is its value 0..9, every other character is its character *)
(* code (32 for " ", 45 for "-", 47 for "/", 65 for "A").  A JavaScript    *)
(* object is a record that has exactly the fields that are set, so "field  *)
(* f is unset" is  f \notin DOMAIN r.                                      *)
(***************************************************************************)
EXTENDS Integers, Sequences, FiniteSets, TLC

VARIABLES
  BUFA_MAP,   \* the tax-office registry, in Object.entries iteration order
  pc,         \* "idle" between calls; "returned" when validateSteuernummer
              \* has returned, the function's name for the other functions
  input,      \* the argument, or arguments, of the last call
  result      \* what that call returned

vars == <<BUFA_MAP, pc, input, result>>

----------------------------------------------------------------------------
(* Bounds of the model.                                                    *)

\* largest number of entries of a registry
MaxRegistry == 2

\* the middle digits of an input are drawn with parameters in 0..MaxMidDigit
MaxMidDigit == 1

----------------------------------------------------------------------------
(* JavaScript primitives.                                                  *)

\* the value null (of normalizeTo13Digits)
Null == <<-1>>

IsDigit(c) == c \in 0..9

\* String.prototype.substring(start, end), 0-based, end exclusive, clamped
substring(s, start, end) ==
  SubSeq(s, start + 1, IF end > Len(s) THEN Len(s) ELSE end)

\* fault: only spaces, hyphens and slashes are removed
StripNonDigits_SeparatorsOnly(s) == SelectSeq(s, LAMBDA c : c \notin {32, 45, 47})

\* str.replace(/\D+/g, '')
StripNonDigits(s) == SelectSeq(s, IsDigit)

\* /^0+$/.test(s)
AllZeros(s) == Len(s) >= 1 /\ \A i \in 1..Len(s) : s[i] = 0

\* String(input) for the kinds of argument the model draws
StringOf(v) == v.chars

\* !input : null, undefined, the empty string and the number 0 are falsy
Falsy(v) ==
  \/ v.kind \in {"null", "undefined"}
  \/ v.kind = "string" /\ v.chars = <<>>
  \/ v.kind = "number" /\ v.chars = <<0>>

----------------------------------------------------------------------------
(* prufziffernverfahren.ts                                                 *)

BERLIN_A_MULTIPLIERS == <<0, 0, 0, 0, 0, 7, 6, 5, 8, 4, 3, 2>>

BERLIN_B_MULTIPLIERS == <<0, 0, 2, 9, 0, 8, 7, 6, 5, 4, 3, 2>>

NRW_MULTIPLIERS == <<0, 3, 2, 1, 0, 7, 6, 5, 4, 3, 2, 1>>

BayernBase == <<1, 2, 1, 2, 1, 2, 1, 2, 1, 2, 1, 2>>

\* fault: a product above 9 is added as it is
BayernTerm_Product(d, b) == d * b

\* one summand of pruefzifferBayern: p > 9 ? (p % 10) + 1 : p
BayernTerm(d, b) ==
  LET p == d * b IN IF p > 9 THEN (p % 10) + 1 ELSE p

RECURSIVE BayernSum(_, _)
BayernSum(elster13, n) ==
  IF n = 0 THEN 0
  ELSE BayernSum(elster13, n - 1) + BayernTerm(elster13[n], BayernBase[n])

pruefzifferBayern(elster13) ==
  LET sum == BayernSum(elster13, 12) IN (10 - (sum % 10)) % 10

RECURSIVE WeightedSum(_, _, _)
WeightedSum(body, multipliers, n) ==
  IF n = 0 THEN 0
  ELSE WeightedSum(body, multipliers, n - 1) + body[n] * multipliers[n]

\* fault: the sum is reduced modulo 11 only
computeWeightedCheckDigit_NoMod10(body, multipliers) ==
  WeightedSum(body, multipliers, 12) % 11

computeWeightedCheckDigit(body, multipliers) ==
  (WeightedSum(body, multipliers, 12) % 11) % 10

\* fault: the check digit is the last character, not the 13th
validatePruefziffer_LastCharacter(elster13, info) ==
  IF Len(elster13) < 13 THEN FALSE
  ELSE
    LET body == substring(elster13, 0, 12)
        checkDigit == elster13[Len(elster13)]
    IN  CASE info.verfahren = "BERLIN_A" ->
               computeWeightedCheckDigit(body, BERLIN_A_MULTIPLIERS) = checkDigit
          [] info.verfahren = "BERLIN_B" ->
               computeWeightedCheckDigit(body, BERLIN_B_MULTIPLIERS) = checkDigit
          [] info.verfahren = "BAYERN_11ER" ->
               pruefzifferBayern(elster13) = checkDigit
          [] info.verfahren = "NRW" ->
               computeWeightedCheckDigit(body, NRW_MULTIPLIERS) = checkDigit
          [] OTHER ->
               pruefzifferBayern(elster13) = checkDigit

\* elster13[12] is undefined, and Number(undefined) is NaN, below 13 characters
validatePruefziffer(elster13, info) ==
  IF Len(elster13) < 13 THEN FALSE
  ELSE
    LET body == substring(elster13, 0, 12)
        checkDigit == elster13[13]
    IN  CASE info.verfahren = "BERLIN_A" ->
               computeWeightedCheckDigit(body, BERLIN_A_MULTIPLIERS) = checkDigit
          [] info.verfahren = "BERLIN_B" ->
               computeWeightedCheckDigit(body, BERLIN_B_MULTIPLIERS) = checkDigit
          [] info.verfahren = "BAYERN_11ER" ->
               pruefzifferBayern(elster13) = checkDigit
          [] info.verfahren = "NRW" ->
               computeWeightedCheckDigit(body, NRW_MULTIPLIERS) = checkDigit
          [] OTHER ->
               pruefzifferBayern(elster13) = checkDigit

----------------------------------------------------------------------------
(* normalization.ts                                                        *)


\* fault: the length test admits 9 digits
normalizeSteuernummer_From9(v) ==
  IF Falsy(v) THEN <<>>
  ELSE
    LET digits == StripNonDigits(StringOf(v))
    IN  IF Len(digits) \in {9, 10, 11, 12, 13} THEN digits ELSE <<>>

normalizeSteuernummer(v) ==
  IF Falsy(v) THEN <<>>
  ELSE
    LET digits == StripNonDigits(StringOf(v))
    IN  IF Len(digits) \in {10, 11, 12, 13} THEN digits ELSE <<>>


\* fault: the 10-digit branch for state 05 puts the filler after the district
normalizeTo13Digits_FillerAfterDistrict(inp, bufa) ==
  LET digits == StripNonDigits(inp)
      LL == substring(bufa, 0, 2)
      isNRW == (LL = <<0, 5>>)
  IN
  IF Len(digits) = 10 THEN
    LET FF_in == substring(digits, 0, 2)
        BBB == substring(digits, 2, 5)
        UUUU == substring(digits, 5, 9)
        P == substring(digits, 9, Len(digits))
        BBBB == substring(digits, 2, 6)
        UUUP == substring(digits, 6, 10)
    IN  IF ~isNRW THEN LL \o FF_in \o <<0>> \o BBB \o UUUU \o P
        ELSE LL \o FF_in \o BBBB \o <<0>> \o UUUP
  ELSE IF Len(digits) = 11 THEN
    LET FF_in == substring(digits, 0, 2)
        BBB == substring(digits, 2, 5)
        UUUU == substring(digits, 5, 9)
        P == substring(digits, 9, 11)
        BBBB == substring(digits, 2, 6)
        UUUP == substring(digits, 6, 11)
    IN  IF ~isNRW THEN LL \o FF_in \o <<0>> \o BBB \o UUUU \o P
        ELSE LL \o FF_in \o <<0>> \o BBBB \o UUUP
  ELSE IF Len(digits) = 12 THEN
    LET LL_in == substring(digits, 0, 2)
        FF_in == substring(digits, 2, 4)
        BBB == substring(digits, 4, 7)
        UUUU == substring(digits, 7, 11)
        P == substring(digits, 11, 12)
        BBBB == substring(digits, 4, 8)
        UUUP == substring(digits, 8, 12)
    IN  IF ~isNRW THEN LL_in \o FF_in \o <<0>> \o BBB \o UUUU \o P
        ELSE LL_in \o FF_in \o <<0>> \o BBBB \o UUUP
  ELSE IF Len(digits) = 13 THEN digits
  ELSE Null

\* fault: for 10 digits the office number is that of the regional code, not
\* the input's first two digits
normalizeTo13Digits_OfficeOfCode(inp, bufa) ==
  LET digits == StripNonDigits(inp)
  IN  IF Len(digits) = 10 THEN bufa \o <<0>> \o substring(digits, 2, 10)
      ELSE normalizeTo13Digits_FillerAfterDistrict(inp, bufa)

normalizeTo13Digits(inp, bufa) ==
  LET digits == StripNonDigits(inp)
      LL == substring(bufa, 0, 2)
      isNRW == (LL = <<0, 5>>)
  IN
  IF Len(digits) = 10 THEN
    LET FF_in == substring(digits, 0, 2)
        BBB == substring(digits, 2, 5)
        UUUU == substring(digits, 5, 9)
        P == substring(digits, 9, Len(digits))
        BBBB == substring(digits, 2, 6)
        UUUP == substring(digits, 6, 10)
    IN  IF ~isNRW THEN LL \o FF_in \o <<0>> \o BBB \o UUUU \o P
        ELSE LL \o FF_in \o <<0>> \o BBBB \o UUUP
  ELSE IF Len(digits) = 11 THEN
    LET FF_in == substring(digits, 0, 2)
        BBB == substring(digits, 2, 5)
        UUUU == substring(digits, 5, 9)
        P == substring(digits, 9, 11)
        BBBB == substring(digits, 2, 6)
        UUUP == substring(digits, 6, 11)
    IN  IF ~isNRW THEN LL \o FF_in \o <<0>> \o BBB \o UUUU \o P
        ELSE LL \o FF_in \o <<0>> \o BBBB \o UUUP
  ELSE IF Len(digits) = 12 THEN
    LET LL_in == substring(digits, 0, 2)
        FF_in == substring(digits, 2, 4)
        BBB == substring(digits, 4, 7)
        UUUU == substring(digits, 7, 11)
        P == substring(digits, 11, 12)
        BBBB == substring(digits, 4, 8)
        UUUP == substring(digits, 8, 12)
    IN  IF ~isNRW THEN LL_in \o FF_in \o <<0>> \o BBB \o UUUU \o P
        ELSE LL_in \o FF_in \o <<0>> \o BBBB \o UUUP
  ELSE IF Len(digits) = 13 THEN digits
  ELSE Null

----------------------------------------------------------------------------
(* finanzamtsdaten.ts: the registry                                        *)

\* BUFA_MAP[bufa] is defined
HasBufa(bufa) == \E i \in 1..Len(BUFA_MAP) : BUFA_MAP[i].bufa = bufa

\* BUFA_MAP[bufa]
InfoOf(bufa) ==
  BUFA_MAP[CHOOSE i \in 1..Len(BUFA_MAP) : BUFA_MAP[i].bufa = bufa]

----------------------------------------------------------------------------
(* validation-tax-number.ts.  The reasons spell the u-umlaut of            *)
(* "Pruefziffer" as "ue".                                                  *)

RECURSIVE findPossibleBufasFrom(_, _)
findPossibleBufasFrom(finanzamtNumber, i) ==
  IF i > Len(BUFA_MAP) THEN <<>>
  ELSE (IF BUFA_MAP[i].finanzamtsnummer = finanzamtNumber
          THEN <<BUFA_MAP[i].bufa>> ELSE <<>>)
       \o findPossibleBufasFrom(finanzamtNumber, i + 1)


\* fault: the entries are matched on the state number of their key
findPossibleBufas_ByState(finanzamtNumber) ==
  LET keys == [i \in 1..Len(BUFA_MAP) |-> BUFA_MAP[i].bufa]
  IN  SelectSeq(keys, LAMBDA bufa : substring(bufa, 0, 2) = finanzamtNumber)

findPossibleBufas(finanzamtNumber) == findPossibleBufasFrom(finanzamtNumber, 1)


\* fault: the loop does not return at its first success, so the last passing
\* candidate wins
RECURSIVE tryBufas_LastMatch(_, _, _)
tryBufas_LastMatch(normalized, possibleBufas, i) ==
  IF i > Len(possibleBufas)
  THEN [valid |-> FALSE,
        reason |-> "Invalid check digit (Pruefziffer) for all possible BUFAs"]
  ELSE
    LET bufa == possibleBufas[i]
        converted13Digit == normalizeTo13Digits(normalized, bufa)
        info == InfoOf(bufa)
        later == tryBufas_LastMatch(normalized, possibleBufas, i + 1)
    IN  IF later.valid THEN later
        ELSE IF converted13Digit # Null /\ converted13Digit # <<>>
                /\ validatePruefziffer(converted13Digit, info)
        THEN [valid |-> TRUE, normalized |-> converted13Digit,
              bufa |-> bufa, bundesland |-> info.bundesland]
        ELSE later

\* the loop "for (const bufa of possibleBufas)" of validate10DigitFormat and
\* validate11DigitFormat, from its i-th iteration on
RECURSIVE tryBufas(_, _, _)
tryBufas(normalized, possibleBufas, i) ==
  IF i > Len(possibleBufas)
  THEN [valid |-> FALSE,
        reason |-> "Invalid check digit (Pruefziffer) for all possible BUFAs"]
  ELSE
    LET bufa == possibleBufas[i]
        converted13Digit == normalizeTo13Digits(normalized, bufa)
        info == InfoOf(bufa)
    IN  IF converted13Digit # Null /\ converted13Digit # <<>>
           /\ validatePruefziffer(converted13Digit, info)
        THEN [valid |-> TRUE, normalized |-> converted13Digit,
              bufa |-> bufa, bundesland |-> info.bundesland]
        ELSE tryBufas(normalized, possibleBufas, i + 1)

validate10DigitFormat(normalized) ==
  IF AllZeros(normalized)
  THEN [valid |-> FALSE, reason |-> "Tax number cannot be all zeros"]
  ELSE
    LET finanzamtNumber == substring(normalized, 0, 2)
        possibleBufas == findPossibleBufas(finanzamtNumber)
    IN  IF Len(possibleBufas) = 0
        THEN [valid |-> FALSE,
              reason |-> "Unknown Finanzamt number - no matching BUFA found"]
        ELSE tryBufas(normalized, possibleBufas, 1)

validate11DigitFormat(normalized) ==
  IF AllZeros(normalized)
  THEN [valid |-> FALSE, reason |-> "Tax number cannot be all zeros"]
  ELSE
    LET finanzamtNumber == substring(normalized, 0, 2)
        possibleBufas == findPossibleBufas(finanzamtNumber)
    IN  IF Len(possibleBufas) = 0
        THEN [valid |-> FALSE,
              reason |-> "Unknown Finanzamt number - no matching BUFA found"]
        ELSE tryBufas(normalized, possibleBufas, 1)


\* fault: the check digit is validated on the 12 digits, not on the
\* converted form
validate12DigitFormat_Unconverted(normalized) ==
  IF AllZeros(normalized)
  THEN [valid |-> FALSE, reason |-> "Tax number cannot be all zeros"]
  ELSE
    LET bufa == substring(normalized, 0, 4)
    IN  IF ~HasBufa(bufa)
        THEN [valid |-> FALSE,
              reason |-> "Unknown BUFA code - not a valid German tax office"]
        ELSE
          LET info == InfoOf(bufa)
              converted13Digit == normalizeTo13Digits(normalized, bufa)
          IN  IF converted13Digit = Null \/ converted13Digit = <<>>
              THEN [valid |-> FALSE,
                    reason |-> "Cannot convert to 13-digit format"]
              ELSE IF ~validatePruefziffer(normalized, info)
              THEN [valid |-> FALSE,
                    reason |-> "Invalid check digit (Pruefziffer)"]
              ELSE [valid |-> TRUE, normalized |-> converted13Digit,
                    bufa |-> bufa, bundesland |-> info.bundesland]

\* fault: the check-digit failure reports the region, as the 13-digit path does
validate12DigitFormat_WithRegion(normalized) ==
  IF AllZeros(normalized)
  THEN [valid |-> FALSE, reason |-> "Tax number cannot be all zeros"]
  ELSE
    LET bufa == substring(normalized, 0, 4)
    IN  IF ~HasBufa(bufa)
        THEN [valid |-> FALSE,
              reason |-> "Unknown BUFA code - not a valid German tax office"]
        ELSE
          LET info == InfoOf(bufa)
              converted13Digit == normalizeTo13Digits(normalized, bufa)
          IN  IF converted13Digit = Null \/ converted13Digit = <<>>
              THEN [valid |-> FALSE,
                    reason |-> "Cannot convert to 13-digit format"]
              ELSE IF ~validatePruefziffer(converted13Digit, info)
              THEN [valid |-> FALSE,
                    reason |-> "Invalid check digit (Pruefziffer)",
                    bufa |-> bufa, bundesland |-> info.bundesland]
              ELSE [valid |-> TRUE, normalized |-> converted13Digit,
                    bufa |-> bufa, bundesland |-> info.bundesland]

validate12DigitFormat(normalized) ==
  IF AllZeros(normalized)
  THEN [valid |-> FALSE, reason |-> "Tax number cannot be all zeros"]
  ELSE
    LET bufa == substring(normalized, 0, 4)
    IN  IF ~HasBufa(bufa)
        THEN [valid |-> FALSE,
              reason |-> "Unknown BUFA code - not a valid German tax office"]
        ELSE
          LET info == InfoOf(bufa)
              converted13Digit == normalizeTo13Digits(normalized, bufa)
          IN  IF converted13Digit = Null \/ converted13Digit = <<>>
              THEN [valid |-> FALSE,
                    reason |-> "Cannot convert to 13-digit format"]
              ELSE IF ~validatePruefziffer(converted13Digit, info)
              THEN [valid |-> FALSE,
                    reason |-> "Invalid check digit (Pruefziffer)"]
              ELSE [valid |-> TRUE, normalized |-> converted13Digit,
                    bufa |-> bufa, bundesland |-> info.bundesland]


\* fault: the office number is taken one character too far right
validate13DigitFormat_ShiftedOffice(normalized) ==
  LET landesnummer == substring(normalized, 0, 2)
      finanzamtsnummer == substring(normalized, 3, 5)
      bufa == landesnummer \o finanzamtsnummer
  IN  IF ~HasBufa(bufa)
      THEN [valid |-> FALSE, reason |-> "Unknown BUFA or Finanzamt"]
      ELSE
        LET info == InfoOf(bufa)
        IN  IF ~validatePruefziffer(normalized, info)
            THEN [valid |-> FALSE, reason |-> "Invalid Pruefziffer",
                  bufa |-> bufa, bundesland |-> info.bundesland]
            ELSE [valid |-> TRUE, normalized |-> normalized,
                  bufa |-> bufa, bundesland |-> info.bundesland]

\* fault: the check-digit failure also returns the normalized digits
validate13DigitFormat_FailureNormalized(normalized) ==
  LET landesnummer == substring(normalized, 0, 2)
      finanzamtsnummer == substring(normalized, 2, 4)
      bufa == landesnummer \o finanzamtsnummer
  IN  IF ~HasBufa(bufa)
      THEN [valid |-> FALSE, reason |-> "Unknown BUFA or Finanzamt"]
      ELSE
        LET info == InfoOf(bufa)
        IN  IF ~validatePruefziffer(normalized, info)
            THEN [valid |-> FALSE, reason |-> "Invalid Pruefziffer",
                  normalized |-> normalized,
                  bufa |-> bufa, bundesland |-> info.bundesland]
            ELSE [valid |-> TRUE, normalized |-> normalized,
                  bufa |-> bufa, bundesland |-> info.bundesland]

\* fault: the all-zeros test of the other three formats comes first
validate13DigitFormat_AllZerosTest(normalized) ==
  IF AllZeros(normalized)
  THEN [valid |-> FALSE, reason |-> "Tax number cannot be all zeros"]
  ELSE
    LET bufa == substring(normalized, 0, 4)
    IN  IF ~HasBufa(bufa)
        THEN [valid |-> FALSE, reason |-> "Unknown BUFA or Finanzamt"]
        ELSE
          LET info == InfoOf(bufa)
          IN  IF ~validatePruefziffer(normalized, info)
              THEN [valid |-> FALSE, reason |-> "Invalid Pruefziffer",
                    bufa |-> bufa, bundesland |-> info.bundesland]
              ELSE [valid |-> TRUE, normalized |-> normalized,
                    bufa |-> bufa, bundesland |-> info.bundesland]

validate13DigitFormat(normalized) ==
  LET landesnummer == substring(normalized, 0, 2)
      finanzamtsnummer == substring(normalized, 2, 4)
      bufa == landesnummer \o finanzamtsnummer
  IN  IF ~HasBufa(bufa)
      THEN [valid |-> FALSE, reason |-> "Unknown BUFA or Finanzamt"]
      ELSE
        LET info == InfoOf(bufa)
        IN  IF ~validatePruefziffer(normalized, info)
            THEN [valid |-> FALSE, reason |-> "Invalid Pruefziffer",
                  bufa |-> bufa, bundesland |-> info.bundesland]
            ELSE [valid |-> TRUE, normalized |-> normalized,
                  bufa |-> bufa, bundesland |-> info.bundesland]

\* fault: the switch has no case for 13 digits
validateSteuernummer_No13(v) ==
  LET normalized == normalizeSteuernummer(v)
  IN  IF normalized = <<>>
      THEN [valid |-> FALSE, reason |-> "Invalid length or characters"]
      ELSE CASE Len(normalized) = 10 -> validate10DigitFormat(normalized)
             [] Len(normalized) = 11 -> validate11DigitFormat(normalized)
             [] Len(normalized) = 12 -> validate12DigitFormat(normalized)
             [] OTHER ->
                  [valid |-> FALSE,
                   reason |-> "Invalid length: must be 10, 11, 12, or 13 digits"]

validateSteuernummer(v) ==
  LET normalized == normalizeSteuernummer(v)
  IN  IF normalized = <<>>
      THEN [valid |-> FALSE, reason |-> "Invalid length or characters"]
      ELSE CASE Len(normalized) = 10 -> validate10DigitFormat(normalized)
             [] Len(normalized) = 11 -> validate11DigitFormat(normalized)
             [] Len(normalized) = 12 -> validate12DigitFormat(normalized)
             [] Len(normalized) = 13 -> validate13DigitFormat(normalized)
             [] OTHER ->
                  [valid |-> FALSE,
                   reason |-> "Invalid length: must be 10, 11, 12, or 13 digits"]

----------------------------------------------------------------------------
(* The registries drawn.  An entry's key is its state number followed by   *)
(* its office number.                                                      *)

Entry(bufa, verfahren, bundesland) ==
  [bufa |-> bufa, finanzamtsnummer |-> SubSeq(bufa, 3, 4),
   verfahren |-> verfahren, bundesland |-> bundesland]

EntryUniverse ==
  { Entry(<<1, 1, 1, 6>>, "BERLIN_A", "Berlin"),
    Entry(<<1, 1, 0, 0>>, "BERLIN_B", "Berlin"),
    Entry(<<0, 5, 1, 6>>, "NRW", "Nordrhein-Westfalen"),
    Entry(<<9, 1, 1, 6>>, "BAYERN_11ER", "Bayern"),
    Entry(<<2, 8, 1, 6>>, "STANDARD", "Baden-Wuerttemberg"),
    Entry(<<0, 0, 0, 0>>, "STANDARD", "Testland") }

\* the value of a digit string as a number
RECURSIVE NumberOf(_)
NumberOf(s) ==
  IF s = <<>> THEN 0 ELSE 10 * NumberOf(SubSeq(s, 1, Len(s) - 1)) + s[Len(s)]

\* an object key that is a canonical array index ("1116", not "0516")
IsIndexKey(bufa) == bufa[1] # 0

\* Object.entries lists the index keys in ascending numeric order, then the
\* other keys in insertion order
EntriesOrder(r) ==
  \A i, j \in 1..Len(r) :
    i < j =>
      /\ r[i].bufa # r[j].bufa
      /\ IsIndexKey(r[j].bufa) =>
           /\ IsIndexKey(r[i].bufa)
           /\ NumberOf(r[i].bufa) < NumberOf(r[j].bufa)

Registries ==
  { r \in UNION { [1..k -> EntryUniverse] : k \in 0..MaxRegistry } :
      EntriesOrder(r) }

----------------------------------------------------------------------------
(* The inputs drawn.                                                       *)

\* the first four digits: the registry keys, an unregistered key, and the
\* office numbers 16, 00 and 11 followed by two more digits
Heads ==
  { <<1, 1, 1, 6>>, <<1, 1, 0, 0>>, <<0, 5, 1, 6>>, <<9, 1, 1, 6>>,
    <<2, 8, 1, 6>>, <<0, 0, 0, 0>>, <<1, 1, 9, 9>>, <<1, 6, 0, 0>>,
    <<1, 6, 1, 2>> }

\* k middle digits: the first is a, the others follow the pattern b * i
Mid(k, a, b) == [i \in 1..k |-> IF i = 1 THEN a ELSE (b * i) % 10]

\* the last two digits: one of them takes every value
Tails ==
  { <<p, q>> : p \in 0..9, q \in {0, 7} } \cup
  { <<p, q>> : p \in {0, 7}, q \in 0..9 }

\* digit strings of n >= 6 digits
DigitStrings(n) ==
  { h \o Mid(n - 6, a, b) \o t :
      h \in Heads, a \in 0..MaxMidDigit, b \in 0..MaxMidDigit, t \in Tails }

\* digit strings of the lengths validateSteuernummer routes
RoutedStrings == UNION { DigitStrings(n) : n \in 10..13 }

\* digit strings of every other length from 0 to 15
OtherStrings ==
  { SubSeq(h \o Mid(11, 0, 1), 1, k) : h \in Heads, k \in (0..9) \cup {14, 15} }

\* the digit strings that are also drawn with formatting characters
FormatBase ==
  OtherStrings \cup
  { h \o Mid(n - 6, 0, 1) \o t :
      h \in Heads, n \in 10..13,
      t \in { <<p, 0>> : p \in 0..9 } \cup { <<7, q>> : q \in 0..9 } }

Formats == {"spaces", "slashes", "hyphen", "letter"}

\* d with formatting characters inserted: spaces (32) around it, slashes (47)
\* after the 2nd and 5th character, a hyphen (45) or the letter A (65) after
\* the 4th
Format(d, f) ==
  CASE f = "spaces" -> <<32>> \o d \o <<32, 32>>
    [] f = "slashes" ->
         substring(d, 0, 2) \o <<47>> \o substring(d, 2, 5) \o <<47>>
           \o substring(d, 5, Len(d))
    [] f = "hyphen" -> substring(d, 0, 4) \o <<45>> \o substring(d, 4, Len(d))
    [] f = "letter" -> substring(d, 0, 4) \o <<65>> \o substring(d, 4, Len(d))

StringInput(chars) == [kind |-> "string", chars |-> chars]

Inputs ==
  { StringInput(d) : d \in RoutedStrings \cup OtherStrings } \cup
  { StringInput(Format(d, f)) : d \in FormatBase, f \in Formats } \cup
  { [kind |-> "null", chars |-> <<>>],
    [kind |-> "undefined", chars |-> <<>>],
    [kind |-> "number", chars |-> <<0>>],
    [kind |-> "number", chars |-> <<1, 1, 1, 6, 0, 1, 2, 3, 4, 5, 6, 7, 8>>],
    [kind |-> "number", chars |-> <<1, 6, 0>>] }

----------------------------------------------------------------------------
(* The state machine: the registry is loaded once and never written; each  *)
(* call of validateSteuernummer is one step.                               *)

NoInput == [kind |-> "none", chars |-> <<>>]

NoResult == <<>>

Init ==
  /\ BUFA_MAP \in Registries
  /\ pc = "idle"
  /\ input = NoInput
  /\ result = NoResult

\* const result = validateSteuernummer(v), for any argument v
Call ==
  /\ pc = "idle"
  /\ \E v \in Inputs :
       /\ input' = v
       /\ result' = validateSteuernummer(v)
  /\ pc' = "returned"
  /\ UNCHANGED BUFA_MAP

\* the caller drops the result; nothing of the call persists
Return ==
  /\ pc = "returned"
  /\ pc' = "idle"
  /\ input' = NoInput
  /\ result' = NoResult
  /\ UNCHANGED BUFA_MAP

Next == Call \/ Return

Spec == Init /\ [][Next]_vars

----------------------------------------------------------------------------
(* Vocabulary of the properties.                                           *)

Returned == pc = "returned"

\* the decimal digits of the string form of the argument, in order
InputDigits == SelectSeq(input.chars, LAMBDA c : c \in 0..9)

DigitCount == Len(InputDigits)

OnlyZeros == \A i \in 1..DigitCount : InputDigits[i] = 0

\* the first n digits of the argument
Leading(n) == [i \in 1..n |-> InputDigits[i]]

Has(f) == f \in DOMAIN result

\* the indices of the registry entries with key k
EntriesWithKey(k) == {i \in 1..Len(BUFA_MAP) : BUFA_MAP[i].bufa = k}

\* the indices of the registry entries with office number ff
EntriesWithOffice(ff) ==
  {i \in 1..Len(BUFA_MAP) : BUFA_MAP[i].finanzamtsnummer = ff}

\* the indices of the registry entries with state number ll
EntriesWithState(ll) ==
  {i \in 1..Len(BUFA_MAP) : <<BUFA_MAP[i].bufa[1], BUFA_MAP[i].bufa[2]>> = ll}

KeysAt(I) == {BUFA_MAP[i].bufa : i \in I}

Range(q) == {q[i] : i \in 1..Len(q)}

----------------------------------------------------------------------------
(* C1: validateSteuernummer returns exactly {valid: false, reason:         *)
(* 'Invalid length or characters'} for null, undefined, the empty string   *)
(* and every argument whose string form has a number of decimal digits     *)
(* other than 10, 11, 12 or 13.                                            *)
C1_InvalidLength ==
  ( /\ Returned
    /\ \/ input.kind \in {"null", "undefined"}
       \/ input.chars = <<>>
       \/ DigitCount \notin {10, 11, 12, 13} )
  => result = [valid |-> FALSE, reason |-> "Invalid length or characters"]

C1_Witness ==
  /\ Returned
  /\ input.kind = "string"
  /\ DigitCount = 9
  /\ Len(input.chars) = 10
  /\ result = [valid |-> FALSE, reason |-> "Invalid length or characters"]

(* C2: every argument whose digits are all 0 and number 10, 11, 12 or 13   *)
(* is rejected with the reason 'Tax number cannot be all zeros', whatever  *)
(* the registry holds.                                                     *)
C2_AllZeros ==
  ( /\ Returned
    /\ input.kind \in {"string", "number"}
    /\ DigitCount \in {10, 11, 12, 13}
    /\ OnlyZeros )
  => /\ result.valid = FALSE
     /\ result.reason = "Tax number cannot be all zeros"

(* C3: for 13 digits the first four digits are looked up in the registry:  *)
(* absent, the outcome is {valid: false, reason: 'Unknown BUFA or          *)
(* Finanzamt'}; present, the outcome is valid exactly when the 13th digit  *)
(* is the check digit of the entry's procedure, and then normalized is the *)
(* stripped input, bufa its first four digits and bundesland the entry's   *)
(* state name.                                                             *)
C3_ThirteenDigits ==
  ( /\ Returned
    /\ input.kind \in {"string", "number"}
    /\ DigitCount = 13 )
  => LET key == Leading(4)
     IN  IF EntriesWithKey(key) = {}
         THEN result = [valid |-> FALSE, reason |-> "Unknown BUFA or Finanzamt"]
         ELSE LET info == BUFA_MAP[CHOOSE i \in EntriesWithKey(key) : TRUE]
              IN  /\ result.valid = validatePruefziffer(InputDigits, info)
                  /\ result.valid =>
                       result = [valid |-> TRUE, normalized |-> InputDigits,
                                 bufa |-> key, bundesland |-> info.bundesland]

C3_Witness ==
  /\ Returned
  /\ input.kind = "string"
  /\ DigitCount = 13
  /\ Len(input.chars) > 13
  /\ result.valid
  /\ result.normalized = InputDigits
  /\ result.bufa = <<0, 5, 1, 6>>

(* C4: for 10 or 11 digits that are not all zeros the candidates are the   *)
(* registry entries whose office number is the input's first two digits,   *)
(* in any state; without a candidate the outcome is the unknown-Finanzamt  *)
(* failure; otherwise it is the valid outcome of the first candidate, in   *)
(* registry order, whose synthesized form passes that candidate's own      *)
(* procedure, or the all-candidates-failed failure when none passes.       *)
C4_CandidateSearch ==
  ( /\ Returned
    /\ input.kind \in {"string", "number"}
    /\ DigitCount \in {10, 11}
    /\ ~OnlyZeros )
  => LET cand == EntriesWithOffice(Leading(2))
         form(i) == normalizeTo13Digits(InputDigits, BUFA_MAP[i].bufa)
         pass == {i \in cand : validatePruefziffer(form(i), BUFA_MAP[i])}
     IN  IF cand = {}
         THEN result =
                [valid |-> FALSE,
                 reason |-> "Unknown Finanzamt number - no matching BUFA found"]
         ELSE IF pass = {}
         THEN result =
                [valid |-> FALSE,
                 reason |->
                   "Invalid check digit (Pruefziffer) for all possible BUFAs"]
         ELSE LET first == CHOOSE i \in pass : \A j \in pass : i <= j
              IN  result =
                    [valid |-> TRUE, normalized |-> form(first),
                     bufa |-> BUFA_MAP[first].bufa,
                     bundesland |-> BUFA_MAP[first].bundesland]

\* two candidates pass and the first one in registry order is reported
C4_Witness ==
  /\ Returned
  /\ DigitCount = 10
  /\ result.valid
  /\ LET cand == EntriesWithOffice(Leading(2))
     IN  /\ Cardinality(cand) = 2
         /\ \A i \in cand :
              validatePruefziffer(
                normalizeTo13Digits(InputDigits, BUFA_MAP[i].bufa), BUFA_MAP[i])
         /\ result.bufa = BUFA_MAP[1].bufa
         /\ result.bundesland # BUFA_MAP[2].bundesland

(* C5 as stated: for 10 or 11 digits the regional codes considered are     *)
(* exactly the registry entries whose state number, the first two          *)
(* characters of the key, is the input's first two digits.                 *)
C5_CandidatesByState ==
  ( /\ Returned
    /\ input.kind \in {"string", "number"}
    /\ DigitCount \in {10, 11} )
  => Range(findPossibleBufas(Leading(2))) = KeysAt(EntriesWithState(Leading(2)))

(* C5 amended: for 10 or 11 digits the regional codes considered are       *)
(* exactly the registry entries whose office number is the input's first   *)
(* two digits; an input that is not all zeros gets the unknown-Finanzamt   *)
(* failure exactly when there is none.                                     *)
C5_CandidatesByOffice ==
  ( /\ Returned
    /\ input.kind \in {"string", "number"}
    /\ DigitCount \in {10, 11} )
  => /\ Range(findPossibleBufas(Leading(2))) =
          KeysAt(EntriesWithOffice(Leading(2)))
     /\ ~OnlyZeros =>
          ( result = [valid |-> FALSE,
                      reason |->
                        "Unknown Finanzamt number - no matching BUFA found"]
            <=> EntriesWithOffice(Leading(2)) = {} )

\* a candidate is considered whose state number differs from the first two
\* digits, and no entry has these as its state number
C5_Witness ==
  /\ Returned
  /\ DigitCount = 11
  /\ result.valid
  /\ EntriesWithState(Leading(2)) = {}
  /\ Cardinality(EntriesWithOffice(Leading(2))) = 2

(* C6: for 12 digits that are not all zeros only the first four digits are *)
(* considered as regional code: not a registry key, the outcome is the     *)
(* unknown-BUFA failure; otherwise the canonical form is the first four    *)
(* digits, '0', and the other eight digits, and the outcome is valid, with *)
(* that form, the key and the state name, exactly when the form passes the *)
(* entry's procedure.                                                      *)
C6_TwelveDigits ==
  ( /\ Returned
    /\ input.kind \in {"string", "number"}
    /\ DigitCount = 12
    /\ ~OnlyZeros )
  => LET key == Leading(4)
         canon == key \o <<0>> \o [i \in 1..8 |-> InputDigits[i + 4]]
     IN  IF EntriesWithKey(key) = {}
         THEN result =
                [valid |-> FALSE,
                 reason |-> "Unknown BUFA code - not a valid German tax office"]
         ELSE LET info == BUFA_MAP[CHOOSE i \in EntriesWithKey(key) : TRUE]
              IN  /\ result.valid = validatePruefziffer(canon, info)
                  /\ result.valid =>
                       result = [valid |-> TRUE, normalized |-> canon,
                                 bufa |-> key, bundesland |-> info.bundesland]
                  /\ ~result.valid =>
                       result = [valid |-> FALSE,
                                 reason |-> "Invalid check digit (Pruefziffer)"]

C6_Witness ==
  /\ Returned
  /\ DigitCount = 12
  /\ result.valid
  /\ result.bufa = <<0, 5, 1, 6>>
  /\ result.normalized[5] = 0
  /\ \E i \in 6..12 : result.normalized[i] # 0

(* C7: a failed outcome carries bufa and bundesland exactly when the input *)
(* has 13 digits, its first four digits are a registry key and the check   *)
(* digit does not match (reason 'Invalid Pruefziffer'); every other failed *)
(* outcome leaves both unset.                                              *)
C7_FailureDiagnostics ==
  ( /\ Returned
    /\ ~result.valid )
  => LET known == /\ input.kind \in {"string", "number"}
                  /\ DigitCount = 13
                  /\ EntriesWithKey(Leading(4)) # {}
     IN  IF known
         THEN LET info == BUFA_MAP[CHOOSE i \in EntriesWithKey(Leading(4)) : TRUE]
              IN  result = [valid |-> FALSE, reason |-> "Invalid Pruefziffer",
                            bufa |-> Leading(4),
                            bundesland |-> info.bundesland]
         ELSE ~Has("bufa") /\ ~Has("bundesland")

\* a 12-digit input of a registered key fails its check digit
C7_Witness ==
  /\ Returned
  /\ DigitCount = 12
  /\ EntriesWithKey(Leading(4)) # {}
  /\ ~result.valid
  /\ ~Has("bufa")
  /\ result.reason = "Invalid check digit (Pruefziffer)"

(* C8: every outcome has one of two shapes: valid with normalized, bufa    *)
(* and bundesland set and reason unset, or not valid with reason set and   *)
(* normalized unset.                                                       *)
C8_OutcomeShape ==
  Returned =>
    \/ /\ result.valid = TRUE
       /\ Has("normalized") /\ Has("bufa") /\ Has("bundesland")
       /\ ~Has("reason")
    \/ /\ result.valid = FALSE
       /\ Has("reason")
       /\ ~Has("normalized")

\* a failed outcome that carries more than the reason
C8_Witness ==
  /\ Returned
  /\ ~result.valid
  /\ Has("bufa")
  /\ ~Has("normalized")

(* C9: every accepted input of 10, 11, 12 or 13 digits returns a canonical *)
(* form of exactly 13 decimal digits, and every candidate synthesized by   *)
(* normalizeTo13Digits for a 10-, 11- or 12-digit input has 13 digits.     *)
C9_CanonicalLength ==
  ( /\ Returned
    /\ input.kind \in {"string", "number"}
    /\ DigitCount \in {10, 11, 12, 13} )
  => /\ result.valid =>
          /\ Len(result.normalized) = 13
          /\ \A i \in 1..13 : result.normalized[i] \in 0..9
     /\ (DigitCount \in {10, 11, 12} /\ ~OnlyZeros) =>
          \A i \in IF DigitCount = 12 THEN EntriesWithKey(Leading(4))
                    ELSE EntriesWithOffice(Leading(2)) :
            Len(normalizeTo13Digits(InputDigits, BUFA_MAP[i].bufa)) = 13

\* the 10-digit old-format projection of the argument: office number,
\* district, sequence and check digit
Projection == <<InputDigits[3], InputDigits[4]>> \o [i \in 1..8 |-> InputDigits[i + 5]]

RoundTrip ==
  /\ Leading(4) \in Range(findPossibleBufas(<<InputDigits[3], InputDigits[4]>>))
  /\ normalizeTo13Digits(Projection, Leading(4)) = InputDigits
  /\ validateSteuernummer(StringInput(Projection)).valid

(* C10 as stated: every 13-digit number with filler '0' that passes the    *)
(* checksum of its registered region R has R among the candidates of its   *)
(* 10-digit projection, is the form synthesized from the projection for R, *)
(* and the projection is accepted.                                         *)
C10_RoundTripAlways ==
  ( /\ Returned
    /\ input.kind \in {"string", "number"}
    /\ DigitCount = 13
    /\ InputDigits[5] = 0
    /\ result.valid )
  => RoundTrip

(* C10 amended: the same, for the numbers whose 10-digit projection is not *)
(* all zeros.                                                              *)
C10_RoundTrip ==
  ( /\ Returned
    /\ input.kind \in {"string", "number"}
    /\ DigitCount = 13
    /\ InputDigits[5] = 0
    /\ result.valid
    /\ \E i \in 1..10 : Projection[i] # 0 )
  => RoundTrip

\* an accepted number of the state 05, whose projection is split 4 + 3
C10_Witness ==
  /\ Returned
  /\ DigitCount = 13
  /\ InputDigits[5] = 0
  /\ result.valid
  /\ result.bufa = <<0, 5, 1, 6>>
  /\ Len(BUFA_MAP) = 2
  /\ \E i \in 1..10 : Projection[i] # 0
  /\ RoundTrip

----------------------------------------------------------------------------
(* preset-validation.helper.ts.  Letters are their character codes: 65..90 *)
(* for A..Z, 97..122 for a..z.  The white space drawn is the space (32)    *)
(* and the line feed (10); the tab is not drawn.                           *)
(*                                                                         *)
(* The outcome of a call of a boolean validator is the record              *)
(* [returned |-> b] or, when the call raises, [thrown |-> "TypeError"].    *)

Returns(b) == [returned |-> b]

Throws == [thrown |-> "TypeError"]

\* country-codes.json, as the README lists it:
\* AL AD BE BG DK DE EE FI FR GF GI GR GP IE IS IT HR LV LI LT LU MT MQ YT MD
\* MC ME NL MK NO AT PL PT RE RO BL MF PM SM SE CH SK SI ES CZ HU VA GB CY
countryCodes ==
  { <<65, 76>>, <<65, 68>>, <<66, 69>>, <<66, 71>>, <<68, 75>>, <<68, 69>>,
    <<69, 69>>, <<70, 73>>, <<70, 82>>, <<71, 70>>, <<71, 73>>, <<71, 82>>,
    <<71, 80>>, <<73, 69>>, <<73, 83>>, <<73, 84>>, <<72, 82>>, <<76, 86>>,
    <<76, 73>>, <<76, 84>>, <<76, 85>>, <<77, 84>>, <<77, 81>>, <<89, 84>>,
    <<77, 68>>, <<77, 67>>, <<77, 69>>, <<78, 76>>, <<77, 75>>, <<78, 79>>,
    <<65, 84>>, <<80, 76>>, <<80, 84>>, <<82, 69>>, <<82, 79>>, <<66, 76>>,
    <<77, 70>>, <<80, 77>>, <<83, 77>>, <<83, 69>>, <<67, 72>>, <<83, 75>>,
    <<83, 73>>, <<69, 83>>, <<67, 90>>, <<72, 85>>, <<86, 65>>, <<71, 66>>,
    <<67, 89>> }

\* /\s/
IsWhitespace(c) == c \in {32, 10}

\* [A-Z]
IsUpperLetter(c) == c \in 65..90

\* [A-Z0-9]
IsAlphanumeric(c) == IsUpperLetter(c) \/ IsDigit(c)

\* String.prototype.toUpperCase
toUpperCase(s) == [i \in 1..Len(s) |-> IF s[i] \in 97..122 THEN s[i] - 32 ELSE s[i]]

\* fault: only the white space at both ends is removed (trim alone)
RemoveWhitespace_TrimOnly(s) ==
  LET kept == { i \in 1..Len(s) : ~IsWhitespace(s[i]) }
  IN  IF kept = {} THEN <<>>
      ELSE SubSeq(s, CHOOSE i \in kept : \A j \in kept : i <= j,
                     CHOOSE i \in kept : \A j \in kept : i >= j)

\* s.trim().replace(/\s/g, '')
RemoveWhitespace(s) == SelectSeq(s, LAMBDA c : ~IsWhitespace(c))

\* a method call on the argument (taxId.trim(), iban.trim(), bic.trim()) raises
\* a TypeError unless the argument is a string
HasTrim(v) == v.kind = "string"

\* the value of product after the first n digits (the loop of
\* calculateTaxIdCheckDigit)
RECURSIVE TaxIdProduct(_, _)
TaxIdProduct(taxIdDigits, n) ==
  IF n = 0 THEN 10
  ELSE LET digit == taxIdDigits[n]
           sum0 == (digit + TaxIdProduct(taxIdDigits, n - 1)) % 10
           sum == IF sum0 = 0 THEN 10 ELSE sum0
       IN  (2 * sum) % 11

\* fault: the check digit 10 is not replaced by 0
calculateTaxIdCheckDigit_NoWrap(taxIdDigits) ==
  11 - TaxIdProduct(taxIdDigits, Len(taxIdDigits))

calculateTaxIdCheckDigit(taxIdDigits) ==
  LET product == TaxIdProduct(taxIdDigits, Len(taxIdDigits))
      checkDigit == 11 - product
  IN  IF checkDigit = 10 THEN 0 ELSE checkDigit

\* fault: the test /^\d{11}/ without its end anchor
validateGermanTaxId_Unanchored(taxId) ==
  IF ~HasTrim(taxId) THEN Throws
  ELSE
    LET cleanedTaxId == RemoveWhitespace(taxId.chars)
    IN  IF ~(Len(cleanedTaxId) >= 11 /\ \A i \in 1..11 : IsDigit(cleanedTaxId[i]))
        THEN Returns(FALSE)
        ELSE Returns(calculateTaxIdCheckDigit(substring(cleanedTaxId, 0, 10))
                       = cleanedTaxId[11])

validateGermanTaxId(taxId) ==
  IF ~HasTrim(taxId) THEN Throws
  ELSE
    LET cleanedTaxId == RemoveWhitespace(taxId.chars)
    IN  IF ~(Len(cleanedTaxId) = 11 /\ \A i \in 1..11 : IsDigit(cleanedTaxId[i]))
        THEN Returns(FALSE)
        ELSE
          LET mainDigits == substring(cleanedTaxId, 0, 10)
              providedCheckDigit == cleanedTaxId[11]
              calculatedCheckDigit == calculateTaxIdCheckDigit(mainDigits)
          IN  Returns(calculatedCheckDigit = providedCheckDigit)

validateGermanTaxNumber(taxNumber) ==
  LET r == validateSteuernummer(taxNumber) IN Returns(r.valid)

\* /^[A-Z]{2}[0-9]{2}[A-Z0-9]+$/.test(cleaned)
IbanFormat(cleaned) ==
  /\ Len(cleaned) >= 5
  /\ IsUpperLetter(cleaned[1]) /\ IsUpperLetter(cleaned[2])
  /\ IsDigit(cleaned[3]) /\ IsDigit(cleaned[4])
  /\ \A i \in 5..Len(cleaned) : IsAlphanumeric(cleaned[i])

\* the loop that builds numericString: (char.charCodeAt(0) - 55).toString()
\* for a letter, the character itself otherwise
RECURSIVE NumericString(_)
NumericString(rearranged) ==
  IF rearranged = <<>> THEN <<>>
  ELSE LET char == Head(rearranged)
       IN  (IF IsUpperLetter(char)
              THEN <<(char - 55) \div 10, (char - 55) % 10>>
              ELSE <<char>>)
           \o NumericString(Tail(rearranged))

\* the loop remainder = (remainder * 10 + parseInt(digit)) % 97, over the
\* first n characters
RECURSIVE Remainder97(_, _)
Remainder97(numericString, n) ==
  IF n = 0 THEN 0
  ELSE (Remainder97(numericString, n - 1) * 10 + numericString[n]) % 97

\* fault: the checksum is taken over the IBAN as written, its first four
\* characters not moved to the end
validateIBAN_Unrotated(iban) ==
  IF ~HasTrim(iban) THEN Throws
  ELSE
    LET cleaned == toUpperCase(RemoveWhitespace(iban.chars))
    IN  IF Len(cleaned) < 15 \/ Len(cleaned) > 34 THEN Returns(FALSE)
        ELSE IF ~IbanFormat(cleaned) THEN Returns(FALSE)
        ELSE IF substring(cleaned, 0, 2) \notin countryCodes THEN Returns(FALSE)
        ELSE
          LET numericString == NumericString(cleaned)
          IN  Returns(Remainder97(numericString, Len(numericString)) = 1)

\* fault: the last test is remainder <= 1
validateIBAN_RemainderAtMostOne(iban) ==
  IF ~HasTrim(iban) THEN Throws
  ELSE
    LET cleaned == toUpperCase(RemoveWhitespace(iban.chars))
    IN  IF Len(cleaned) < 15 \/ Len(cleaned) > 34 THEN Returns(FALSE)
        ELSE IF ~IbanFormat(cleaned) THEN Returns(FALSE)
        ELSE IF substring(cleaned, 0, 2) \notin countryCodes THEN Returns(FALSE)
        ELSE
          LET rearranged ==
                substring(cleaned, 4, Len(cleaned)) \o substring(cleaned, 0, 4)
              numericString == NumericString(rearranged)
          IN  Returns(Remainder97(numericString, Len(numericString)) <= 1)

validateIBAN(iban) ==
  IF ~HasTrim(iban) THEN Throws
  ELSE
    LET cleaned == toUpperCase(RemoveWhitespace(iban.chars))
    IN  IF Len(cleaned) < 15 \/ Len(cleaned) > 34 THEN Returns(FALSE)
        ELSE IF ~IbanFormat(cleaned) THEN Returns(FALSE)
        ELSE IF substring(cleaned, 0, 2) \notin countryCodes THEN Returns(FALSE)
        ELSE
          LET rearranged ==
                substring(cleaned, 4, Len(cleaned)) \o substring(cleaned, 0, 4)
              numericString == NumericString(rearranged)
              remainder == Remainder97(numericString, Len(numericString))
          IN  Returns(remainder = 1)

\* /^[A-Z]{4}[A-Z]{2}[A-Z0-9]{2}$/ and /^[A-Z]{4}[A-Z]{2}[A-Z0-9]{2}[A-Z0-9]{3}$/
BicFormat(cleaned) ==
  /\ \A i \in 1..6 : IsUpperLetter(cleaned[i])
  /\ \A i \in 7..Len(cleaned) : IsAlphanumeric(cleaned[i])

\* fault: the country code is read from the first two characters
validateBIC_BankPrefix(bic) ==
  IF ~HasTrim(bic) THEN Throws
  ELSE
    LET cleaned == toUpperCase(RemoveWhitespace(bic.chars))
    IN  IF Len(cleaned) # 8 /\ Len(cleaned) # 11 THEN Returns(FALSE)
        ELSE IF ~BicFormat(cleaned) THEN Returns(FALSE)
        ELSE IF substring(cleaned, 0, 2) \notin countryCodes THEN Returns(FALSE)
        ELSE Returns(TRUE)

validateBIC(bic) ==
  IF ~HasTrim(bic) THEN Throws
  ELSE
    LET cleaned == toUpperCase(RemoveWhitespace(bic.chars))
    IN  IF Len(cleaned) # 8 /\ Len(cleaned) # 11 THEN Returns(FALSE)
        ELSE IF ~BicFormat(cleaned) THEN Returns(FALSE)
        ELSE IF substring(cleaned, 4, 6) \notin countryCodes THEN Returns(FALSE)
        ELSE Returns(TRUE)

\* fault: only !value is tested
NotAString_FalsyOnly(value) == Falsy(value)

\* !value || typeof value !== 'string'
NotAString(value) == value.kind # "string" \/ value.chars = <<>>

\* fault: the cases 'iban' and 'bic' call each other's validator
runValidationPreset_Swapped(presetKey, value) ==
  IF NotAString(value)
  THEN [outcome |-> Returns(FALSE), invoked |-> <<>>, warned |-> <<>>]
  ELSE CASE presetKey = "taxId" ->
              [outcome |-> validateGermanTaxId(value),
               invoked |-> <<"validateGermanTaxId">>, warned |-> <<>>]
         [] presetKey = "iban" ->
              [outcome |-> validateBIC(value),
               invoked |-> <<"validateBIC">>, warned |-> <<>>]
         [] presetKey = "bic" ->
              [outcome |-> validateIBAN(value),
               invoked |-> <<"validateIBAN">>, warned |-> <<>>]
         [] presetKey = "taxNumber" ->
              [outcome |-> validateGermanTaxNumber(value),
               invoked |-> <<"validateGermanTaxNumber">>, warned |-> <<>>]
         [] OTHER ->
              [outcome |-> Returns(FALSE), invoked |-> <<>>,
               warned |-> <<presetKey>>]

\* fault: the default branch returns false without console.warn
runValidationPreset_SilentDefault(presetKey, value) ==
  IF NotAString(value)
  THEN [outcome |-> Returns(FALSE), invoked |-> <<>>, warned |-> <<>>]
  ELSE CASE presetKey = "taxId" ->
              [outcome |-> validateGermanTaxId(value),
               invoked |-> <<"validateGermanTaxId">>, warned |-> <<>>]
         [] presetKey = "iban" ->
              [outcome |-> validateIBAN(value),
               invoked |-> <<"validateIBAN">>, warned |-> <<>>]
         [] presetKey = "bic" ->
              [outcome |-> validateBIC(value),
               invoked |-> <<"validateBIC">>, warned |-> <<>>]
         [] presetKey = "taxNumber" ->
              [outcome |-> validateGermanTaxNumber(value),
               invoked |-> <<"validateGermanTaxNumber">>, warned |-> <<>>]
         [] OTHER ->
              [outcome |-> Returns(FALSE), invoked |-> <<>>, warned |-> <<>>]

\* The observation of a call of runValidationPreset: its outcome, the
\* validators it invoked and the presets named by its console.warn messages.
runValidationPreset(presetKey, value) ==
  IF NotAString(value)
  THEN [outcome |-> Returns(FALSE), invoked |-> <<>>, warned |-> <<>>]
  ELSE CASE presetKey = "taxId" ->
              [outcome |-> validateGermanTaxId(value),
               invoked |-> <<"validateGermanTaxId">>, warned |-> <<>>]
         [] presetKey = "iban" ->
              [outcome |-> validateIBAN(value),
               invoked |-> <<"validateIBAN">>, warned |-> <<>>]
         [] presetKey = "bic" ->
              [outcome |-> validateBIC(value),
               invoked |-> <<"validateBIC">>, warned |-> <<>>]
         [] presetKey = "taxNumber" ->
              [outcome |-> validateGermanTaxNumber(value),
               invoked |-> <<"validateGermanTaxNumber">>, warned |-> <<>>]
         [] OTHER ->
              [outcome |-> Returns(FALSE), invoked |-> <<>>,
               warned |-> <<presetKey>>]

----------------------------------------------------------------------------
(* The arguments drawn for the validators of preset-validation.helper.ts.  *)

\* the second parameter of the tax-ID bodies runs over 0..MaxBodyStep
MaxBodyStep == 3

\* s with the character c inserted after its first p characters
InsertAt(s, p, c) == substring(s, 0, p) \o <<c>> \o substring(s, p, Len(s))

\* s with its (p+1)th character replaced by c
ReplaceAt(s, p, c) == substring(s, 0, p) \o <<c>> \o substring(s, p + 1, Len(s))

\* every insertion of one of the characters cs into s
Insertions(s, cs) == { InsertAt(s, p, c) : p \in 0..Len(s), c \in cs }

\* an object whose String() is "[object Object]"
ObjectInput ==
  [kind |-> "object", chars |-> <<91, 111, 98, 106, 101, 99, 116, 32, 79, 98, 106, 101, 99, 116, 93>>]

\* arguments that are not strings
NonStrings ==
  { [kind |-> "null", chars |-> <<>>],
    [kind |-> "undefined", chars |-> <<>>],
    [kind |-> "number", chars |-> <<0>>],
    [kind |-> "number", chars |-> <<1, 2, 3, 4, 5, 6, 7, 8, 9, 0, 3>>],
    ObjectInput }

\* 10-digit bodies of tax IDs: arithmetic patterns and the bodies of the tests
TaxIdBodies ==
  { [i \in 1..10 |-> (a + b * i) % 10] : a \in 0..9, b \in 0..MaxBodyStep } \cup
  { <<1, 2, 3, 4, 5, 6, 7, 8, 9, 0>>,   \* 1234567890
    <<8, 6, 0, 9, 5, 7, 4, 2, 7, 1>>,   \* 8609574271
    <<0, 1, 2, 3, 4, 5, 6, 7, 8, 9>>,   \* 0123456789
    <<1, 0, 0, 0, 0, 0, 0, 0, 0, 0>> }   \* 1000000000

\* a body followed by each of the ten digits
TaxIdStrings == { b \o <<p>> : b \in TaxIdBodies, p \in 0..9 }

\* the tax IDs that are also drawn with other characters or lengths
TaxIdBase == { b \o <<p>> : b \in { <<1, 2, 3, 4, 5, 6, 7, 8, 9, 0>>, <<8, 6, 0, 9, 5, 7, 4, 2, 7, 1>> }, p \in 0..9 }

TaxIdInputs ==
  { StringInput(s) : s \in TaxIdStrings } \cup
  { StringInput(t) : t \in UNION { Insertions(s, {32, 10, 45, 65}) : s \in TaxIdBase } } \cup
  { StringInput(substring(s, 0, k)) : s \in TaxIdBase, k \in {0, 1, 10} } \cup
  { StringInput(s \o <<p>>) : s \in TaxIdBase, p \in {0, 3, 9} } \cup
  NonStrings

\* the tax numbers that are also drawn with one or two separators anywhere
SeparatorBase ==
  { h \o Mid(n - 6, 0, 1) \o <<p, 0>> : h \in Heads, n \in {9, 10, 11, 13}, p \in 0..9 }

TaxNumberInputs ==
  Inputs \cup
  { StringInput(t) : t \in UNION { Insertions(s, {32, 45, 47}) : s \in SeparatorBase } } \cup
  { StringInput(InsertAt(InsertAt(s, 8, c), 2, d)) :
      s \in SeparatorBase, c \in {32, 45, 47}, d \in {32, 45, 47} } \cup
  { ObjectInput }

\* the part of an IBAN after its check digits: those of the tests, and
\* digit strings that make IBANs of 14, 15, 20, 24, 34 and 35 characters
Bbans ==
  { <<3, 7, 0, 4, 0, 0, 4, 4, 0, 5, 3, 2, 0, 1, 3, 0, 0, 0>>,   \* 370400440532013000
    <<5, 0, 0, 1, 0, 5, 1, 7, 5, 4, 0, 7, 3, 2, 4, 9, 3, 1>>,   \* 500105175407324931
    <<87, 69, 83, 84, 1, 2, 3, 4, 5, 6, 9, 8, 7, 6, 5, 4, 3, 2>>,   \* WEST12345698765432
    <<2, 0, 0, 4, 1, 0, 1, 0, 0, 5, 0, 5, 0, 0, 0, 1, 3, 77, 0, 2, 6, 0, 6>>,   \* 20041010050500013M02606
    <<2, 1, 0, 0, 0, 4, 1, 8, 4, 5, 0, 2, 0, 0, 0, 5, 1, 3, 3, 2>>,   \* 21000418450200051332
    <<88, 0, 5, 4, 2, 8, 1, 1, 1, 0, 1, 0, 0, 0, 0, 0, 0, 1, 2, 3, 4, 5, 6>>,   \* X0542811101000000123456
    <<3, 7, 0, 4, 0, 0, 4, 4, 0, 5>>,   \* 3704004405
    <<3, 7, 0, 4, 0, 0, 4, 4, 0, 5, 3>>,   \* 37040044053
    <<3, 7, 0, 4, 0, 0, 4, 4, 0, 5, 3, 2, 0, 1, 3, 0>>,   \* 3704004405320130
    <<3, 7, 0, 4, 0, 0, 4, 4, 0, 5, 3, 2, 0, 1, 3, 0, 0, 0, 0, 0>>,   \* 37040044053201300000
    <<3, 7, 0, 4, 0, 0, 4, 4, 0, 5, 3, 2, 0, 1, 3, 0, 0, 0, 0, 0, 0, 0, 0, 0, 0, 0, 0, 0, 0, 0>>,   \* 370400440532013000000000000000
    <<3, 7, 0, 4, 0, 0, 4, 4, 0, 5, 3, 2, 0, 1, 3, 0, 0, 0, 0, 0, 0, 0, 0, 0, 0, 0, 0, 0, 0, 0, 0>> }   \* 3704004405320130000000000000000

IbanCountries ==
  { <<68, 69>>,   \* DE
    <<71, 66>>,   \* GB
    <<70, 82>>,   \* FR
    <<69, 83>>,   \* ES
    <<73, 84>>,   \* IT
    <<90, 90>> }   \* ZZ

\* country code, two check digits, the rest
Ibans == { c \o <<p, q>> \o b : c \in IbanCountries, p \in 0..9, q \in 0..9, b \in Bbans }

\* strings of the tests of validateIBAN, varied in one character
IbanBase ==
  { <<68, 69, 8, 9, 3, 7, 0, 4, 0, 0, 4, 4, 0, 5, 3, 2, 0, 1, 3, 0, 0, 0>>,   \* DE89370400440532013000
    <<71, 66, 8, 2, 87, 69, 83, 84, 1, 2, 3, 4, 5, 6, 9, 8, 7, 6, 5, 4, 3, 2>>,   \* GB82WEST12345698765432
    <<70, 82, 1, 4, 2, 0, 0, 4, 1, 0, 1, 0, 0, 5, 0, 5, 0, 0, 0, 1, 3, 77, 0, 2, 6, 0, 6>>,   \* FR1420041010050500013M02606
    <<68, 69, 1, 2, 3>>,   \* DE123
    <<1, 2, 3, 4, 5, 6, 7, 8, 9, 0, 1, 2, 3, 4, 5, 6>>,   \* 1234567890123456
    <<68, 69, 65, 65, 3, 7, 0, 4, 0, 0, 4, 4, 0, 5, 3, 2, 0, 1, 3, 0, 0, 0>> }   \* DEAA370400440532013000

IbanInputs ==
  { StringInput(s) : s \in Ibans } \cup
  { StringInput(t) : t \in UNION { Insertions(s, {32, 10, 45, 47}) : s \in IbanBase } } \cup
  { StringInput(ReplaceAt(s, p, c)) :
      s \in IbanBase, p \in 0..26, c \in {5, 45, 65, 100, 32} } \cup
  { StringInput([i \in 1..Len(s) |-> IF s[i] \in 65..90 THEN s[i] + 32 ELSE s[i]]) :
      s \in IbanBase } \cup
  { StringInput(<<>>) } \cup
  NonStrings

BicBanks ==
  { <<68, 69, 85, 84>>,   \* DEUT
    <<67, 79, 66, 65>>,   \* COBA
    <<1, 2, 85, 84>>,   \* 12UT
    <<68, 69, 1, 84>>,   \* DE1T
    <<100, 101, 117, 116>> }   \* deut

BicCountries ==
  { <<68, 69>>,   \* DE
    <<70, 82>>,   \* FR
    <<90, 90>>,   \* ZZ
    <<1, 2>>,   \* 12
    <<68, 1>>,   \* D1
    <<100, 101>> }   \* de

BicLocations ==
  { <<70, 70>>,   \* FF
    <<77, 1>>,   \* M1
    <<5, 70>>,   \* 5F
    <<5, 5>>,   \* 55
    <<70, 45>>,   \* F-
    <<102, 102>> }   \* ff

BicBranches ==
  { <<>>,   \* the empty string
    <<5, 0, 0>>,   \* 500
    <<88, 88, 88>>,   \* XXX
    <<5, 0>>,   \* 50
    <<5, 0, 0, 0>>,   \* 5000
    <<5, 45, 0>>,   \* 5-0
    <<120, 120, 120>> }   \* xxx

\* bank code, country code, location code, branch code
Bics ==
  { a \o c \o l \o b :
      a \in BicBanks, c \in BicCountries, l \in BicLocations, b \in BicBranches }

\* the BICs that are also drawn with other characters or lengths
BicBase ==
  { <<68, 69, 85, 84, 68, 69, 70, 70>>,   \* DEUTDEFF
    <<68, 69, 85, 84, 68, 69, 70, 70, 5, 0, 0>>,   \* DEUTDEFF500
    <<68, 69, 85, 84, 90, 90, 70, 70>>,   \* DEUTZZFF
    <<68, 69, 85, 84, 68, 69, 5>> }   \* DEUTDE5

BicInputs ==
  { StringInput(s) : s \in Bics } \cup
  { StringInput(t) : t \in UNION { Insertions(s, {32, 10, 45, 47}) : s \in BicBase } } \cup
  { StringInput(InsertAt(InsertAt(s, 6, 32), 4, 32)) : s \in BicBase } \cup
  { StringInput(substring(s, 0, k)) : s \in BicBase, k \in {0, 4, 6, 7} } \cup
  NonStrings

\* "unknown", "email" and the empty string are not keys of a preset
PresetKeys == {"taxId", "taxNumber", "iban", "bic", "unknown", "email", ""}

PresetStrings ==
  { <<1, 2, 3, 4, 5, 6, 7, 8, 9, 0, 3>>,   \* 12345678903
    <<1, 2, 3, 4, 5, 6, 7, 8, 9, 0, 1>>,   \* 12345678901
    <<1, 2, 3, 32, 4, 5, 6, 32, 7, 8, 9, 32, 0, 3>>,   \* 123 456 789 03
    <<68, 69, 8, 9, 3, 7, 0, 4, 0, 0, 4, 4, 0, 5, 3, 2, 0, 1, 3, 0, 0, 0>>,   \* DE89370400440532013000
    <<68, 69, 8, 9, 3, 7, 0, 4, 0, 0, 4, 4, 0, 5, 3, 2, 0, 1, 3, 0, 0, 1>>,   \* DE89370400440532013001
    <<100, 101, 8, 9, 32, 3, 7, 0, 4, 32, 0, 0, 4, 4, 32, 0, 5, 3, 2, 32, 0, 1, 3, 0, 32, 0, 0>>,   \* de89 3704 0044 0532 0130 00
    <<68, 69, 85, 84, 68, 69, 70, 70>>,   \* DEUTDEFF
    <<68, 69, 85, 84, 90, 90, 70, 70>>,   \* DEUTZZFF
    <<68, 69, 85, 84, 68, 69, 70, 70, 5, 0, 0>>,   \* DEUTDEFF500
    <<1, 1, 1, 6, 0, 1, 2, 3, 4, 5, 6, 7, 8>>,   \* 1116012345678
    <<0, 0, 0, 0, 0, 0, 0, 0, 0, 0, 0, 0, 0>>,   \* 0000000000000
    <<1, 1, 47, 1, 6, 0, 47, 1, 2, 3, 4, 5, 6, 7, 8>>,   \* 11/160/12345678
    <<97, 98, 99>>,   \* abc
    <<32>> }   \*  

PresetValues ==
  { StringInput(s) : s \in PresetStrings } \cup { StringInput(<<>>) } \cup NonStrings

----------------------------------------------------------------------------
(* The calls of the validators of preset-validation.helper.ts, one at a    *)
(* time, beside those of validateSteuernummer.  pc names the function that *)
(* has returned or raised; input is its argument and, for                  *)
(* runValidationPreset, the pair of its arguments.                         *)

\* registries of at most one entry
PresetInit ==
  /\ BUFA_MAP \in { r \in Registries : Len(r) <= 1 }
  /\ pc = "idle"
  /\ input = NoInput
  /\ result = NoResult

CallTaxId ==
  /\ pc = "idle"
  /\ \E v \in TaxIdInputs :
       /\ input' = v
       /\ result' = validateGermanTaxId(v)
  /\ pc' = "validateGermanTaxId"
  /\ UNCHANGED BUFA_MAP

CallTaxNumber ==
  /\ pc = "idle"
  /\ \E v \in TaxNumberInputs :
       /\ input' = v
       /\ result' = validateGermanTaxNumber(v)
  /\ pc' = "validateGermanTaxNumber"
  /\ UNCHANGED BUFA_MAP

CallIBAN ==
  /\ pc = "idle"
  /\ \E v \in IbanInputs :
       /\ input' = v
       /\ result' = validateIBAN(v)
  /\ pc' = "validateIBAN"
  /\ UNCHANGED BUFA_MAP

CallBIC ==
  /\ pc = "idle"
  /\ \E v \in BicInputs :
       /\ input' = v
       /\ result' = validateBIC(v)
  /\ pc' = "validateBIC"
  /\ UNCHANGED BUFA_MAP

CallPreset ==
  /\ pc = "idle"
  /\ \E presetKey \in PresetKeys, value \in PresetValues :
       /\ input' = [presetKey |-> presetKey, value |-> value]
       /\ result' = runValidationPreset(presetKey, value)
  /\ pc' = "runValidationPreset"
  /\ UNCHANGED BUFA_MAP

\* the caller takes the outcome
PresetReturn ==
  /\ pc \notin {"idle", "returned"}
  /\ pc' = "idle"
  /\ input' = NoInput
  /\ result' = NoResult
  /\ UNCHANGED BUFA_MAP

PresetNext ==
  \/ Call
  \/ Return
  \/ CallTaxId
  \/ CallTaxNumber
  \/ CallIBAN
  \/ CallBIC
  \/ CallPreset
  \/ PresetReturn

PresetSpec == PresetInit /\ [][PresetNext]_vars

----------------------------------------------------------------------------
(* Vocabulary of the properties of preset-validation.helper.ts.            *)

\* the function f has been called with a string
CalledWithString(f) == pc = f /\ input.kind = "string"

\* s without the characters of cs
Without(s, cs) == SelectSeq(s, LAMBDA c : c \notin cs)

\* s holds a character of cs
Contains(s, cs) == \E i \in 1..Len(s) : s[i] \in cs

\* space, hyphen, slash
Separators == {32, 45, 47}

----------------------------------------------------------------------------
(* C11 as stated: spaces, slashes and hyphens anywhere in a tax number, an *)
(* IBAN or a BIC do not change the outcome: each of                        *)
(* validateGermanTaxNumber, validateIBAN and validateBIC returns for the   *)
(* string what it returns for the string without them.                     *)
C11_SeparatorsIgnored ==
  /\ CalledWithString("validateGermanTaxNumber")
       => result = validateGermanTaxNumber(StringInput(Without(input.chars, Separators)))
  /\ CalledWithString("validateIBAN")
       => result = validateIBAN(StringInput(Without(input.chars, Separators)))
  /\ CalledWithString("validateBIC")
       => result = validateBIC(StringInput(Without(input.chars, Separators)))

(* C11, amended: validateGermanTaxNumber returns for a string what it      *)
(* returns for the string without its spaces, slashes and hyphens;         *)
(* validateIBAN and validateBIC return for a string what they return for   *)
(* the string without its spaces, and reject a string that holds a slash   *)
(* or a hyphen.                                                            *)
C11_SpacesIgnored ==
  /\ CalledWithString("validateGermanTaxNumber")
       => result = validateGermanTaxNumber(StringInput(Without(input.chars, Separators)))
  /\ CalledWithString("validateIBAN")
       => /\ result = validateIBAN(StringInput(Without(input.chars, {32})))
          /\ Contains(input.chars, {45, 47}) => result = Returns(FALSE)
  /\ CalledWithString("validateBIC")
       => /\ result = validateBIC(StringInput(Without(input.chars, {32})))
          /\ Contains(input.chars, {45, 47}) => result = Returns(FALSE)

\* an IBAN with a space inside is accepted
C11_Witness ==
  /\ CalledWithString("validateIBAN")
  /\ \E i \in 2..(Len(input.chars) - 1) : input.chars[i] = 32
  /\ result = Returns(TRUE)

\* a tax number with a hyphen and a slash inside is accepted
C11_WitnessTaxNumber ==
  /\ CalledWithString("validateGermanTaxNumber")
  /\ Contains(input.chars, {45})
  /\ Contains(input.chars, {47})
  /\ result = Returns(TRUE)

----------------------------------------------------------------------------
\* one step of the modulo-11 procedure: the product after a digit
C12_Step(product, digit) ==
  LET sum == IF (digit + product) % 10 = 0 THEN 10 ELSE (digit + product) % 10
  IN  (2 * sum) % 11

\* the check digit of a 10-digit body, the ten steps written out
C12_CheckDigit(body) ==
  LET p1 == C12_Step(10, body[1])
      p2 == C12_Step(p1, body[2])
      p3 == C12_Step(p2, body[3])
      p4 == C12_Step(p3, body[4])
      p5 == C12_Step(p4, body[5])
      p6 == C12_Step(p5, body[6])
      p7 == C12_Step(p6, body[7])
      p8 == C12_Step(p7, body[8])
      p9 == C12_Step(p8, body[9])
      p10 == C12_Step(p9, body[10])
  IN  IF 11 - p10 = 10 THEN 0 ELSE 11 - p10

(* C12: validateGermanTaxId returns true exactly when the input without    *)
(* its white space is 11 decimal digits whose 11th digit is the check      *)
(* digit of the first 10 by the iterative modulo-11 procedure; of the      *)
(* strings 8609574271p only the one with p = 9 is accepted.                *)
C12_TaxIdCheckDigit ==
  CalledWithString("validateGermanTaxId")
  => LET s == Without(input.chars, {32, 10})
     IN  /\ result = Returns(/\ Len(s) = 11
                             /\ \A i \in 1..11 : s[i] \in 0..9
                             /\ s[11] = C12_CheckDigit(SubSeq(s, 1, 10)))
         /\ (Len(s) = 11 /\ SubSeq(s, 1, 10) = <<8, 6, 0, 9, 5, 7, 4, 2, 7, 1>>)
              => result = Returns(s[11] = 9)

\* 86095742719 is accepted
C12_Witness ==
  /\ CalledWithString("validateGermanTaxId")
  /\ input.chars = <<8, 6, 0, 9, 5, 7, 4, 2, 7, 1, 9>>
  /\ result = Returns(TRUE)

\* the strings of 11 digits that differ from s in the 11th digit only
C13_Siblings(s) == { SubSeq(s, 1, 10) \o <<p>> : p \in 0..9 }

(* C13: for every 10-digit body exactly one 11th digit makes               *)
(* validateGermanTaxId return true: the product is in 1..10 after every    *)
(* step, the check digit is in 0..9, and a valid tax ID with its check     *)
(* digit replaced by any other digit is invalid.                           *)
C13_OneCheckDigit ==
  LET s == Without(input.chars, {32, 10})
  IN  (/\ CalledWithString("validateGermanTaxId")
       /\ Len(s) = 11
       /\ \A i \in 1..11 : s[i] \in 0..9)
      => /\ Cardinality({ t \in C13_Siblings(s) :
                            validateGermanTaxId(StringInput(t)) = Returns(TRUE) }) = 1
         /\ \A n \in 0..10 : TaxIdProduct(SubSeq(s, 1, 10), n) \in 1..10
         /\ calculateTaxIdCheckDigit(SubSeq(s, 1, 10)) \in 0..9
         /\ result = Returns(TRUE)
              => \A t \in C13_Siblings(s) \ {s} :
                   validateGermanTaxId(StringInput(t)) = Returns(FALSE)

\* a tax ID whose product ends at 1 (check digit 10, written 0) is accepted
C13_Witness ==
  /\ CalledWithString("validateGermanTaxId")
  /\ Len(input.chars) = 11
  /\ input.chars[11] = 0
  /\ result = Returns(TRUE)

----------------------------------------------------------------------------
\* s in upper case
C14_Upper(s) == [i \in 1..Len(s) |-> IF s[i] \in 97..122 THEN s[i] - 32 ELSE s[i]]

\* the numeral of the first n characters of s, modulo 97: a letter stands
\* for its two-digit value (A = 10 ... Z = 35)
RECURSIVE C14_Mod97(_, _)
C14_Mod97(s, n) ==
  IF n = 0 THEN 0
  ELSE IF s[n] \in 65..90 THEN (C14_Mod97(s, n - 1) * 100 + (s[n] - 55)) % 97
  ELSE (C14_Mod97(s, n - 1) * 10 + s[n]) % 97

\* s with its first four characters moved to the end
C14_Rotated(s) == SubSeq(s, 5, Len(s)) \o SubSeq(s, 1, 4)

(* C14: validateIBAN returns true exactly when the input, without white    *)
(* space and in upper case, has 15 to 34 characters, is 2 letters, 2       *)
(* digits and then only letters or digits, begins with a code of the       *)
(* country code set, and the numeral of its rotation (letters as two-digit *)
(* values) is congruent to 1 modulo 97.                                    *)
C14_IbanAccepted ==
  CalledWithString("validateIBAN")
  => LET s == C14_Upper(Without(input.chars, {32, 10}))
     IN  result = Returns(/\ Len(s) >= 15
                          /\ Len(s) <= 34
                          /\ \A i \in 1..2 : s[i] \in 65..90
                          /\ \A i \in 3..4 : s[i] \in 0..9
                          /\ \A i \in 5..Len(s) : s[i] \in (65..90) \cup (0..9)
                          /\ SubSeq(s, 1, 2) \in countryCodes
                          /\ C14_Mod97(C14_Rotated(s), Len(s)) = 1)

\* an IBAN with letters after its check digits is accepted
C14_Witness ==
  /\ CalledWithString("validateIBAN")
  /\ \E i \in 5..Len(input.chars) : input.chars[i] \in 65..90
  /\ result = Returns(TRUE)

\* the length of an IBAN of the country (ISO 13616): DE 22, GB 22, FR 27,
\* ES 24, IT 27, as the examples of the README have them
C15_RequiredLength(country) ==
  CASE country = <<68, 69>> -> 22
    [] country = <<71, 66>> -> 22
    [] country = <<70, 82>> -> 27
    [] country = <<69, 83>> -> 24
    [] country = <<73, 84>> -> 27

(* C15: validateIBAN rejects an IBAN whose length differs from the length  *)
(* required for its country, whatever its remainder modulo 97.             *)
C15_CountryLength ==
  LET s == C14_Upper(Without(input.chars, {32, 10}))
  IN  (/\ CalledWithString("validateIBAN")
       /\ Len(s) >= 2
       /\ SubSeq(s, 1, 2) \in {<<68, 69>>, <<71, 66>>, <<70, 82>>, <<69, 83>>, <<73, 84>>}
       /\ Len(s) # C15_RequiredLength(SubSeq(s, 1, 2)))
      => result = Returns(FALSE)

(* C16: an accepted IBAN with one of its two check digits (positions 3 and *)
(* 4) replaced by a different digit is rejected.                           *)
C16_CheckDigitChanged ==
  (CalledWithString("validateIBAN") /\ result = Returns(TRUE))
  => LET s == Without(input.chars, {32, 10})
     IN  \A p \in 3..4 : \A d \in (0..9) \ {s[p]} :
           validateIBAN(StringInput(ReplaceAt(s, p - 1, d))) = Returns(FALSE)

\* an IBAN whose check digits are both at least 1 is accepted
C16_Witness ==
  /\ CalledWithString("validateIBAN")
  /\ result = Returns(TRUE)
  /\ Len(input.chars) >= 15
  /\ input.chars[3] \in 1..9
  /\ input.chars[4] \in 1..9

----------------------------------------------------------------------------
PresetCalled == pc = "runValidationPreset"

\* the value is not a string, or is the empty string
C18_NoString(value) ==
  \/ value.kind \in {"null", "undefined", "number", "object"}
  \/ value.kind = "string" /\ Len(value.chars) = 0

(* C18: for every preset key, runValidationPreset returns false for a      *)
(* value that is not a string or is the empty string, invokes no validator *)
(* and does not throw.                                                     *)
C18_NonStringValue ==
  (PresetCalled /\ C18_NoString(input.value))
  => /\ result.outcome = Returns(FALSE)
     /\ result.invoked = <<>>

\* the preset 'iban' with a number that is not 0 returns false
C18_Witness ==
  /\ PresetCalled
  /\ input.presetKey = "iban"
  /\ input.value.kind = "number"
  /\ input.value.chars # <<0>>
  /\ result.outcome = Returns(FALSE)

\* the keys of the four presets
C19_KnownKeys == {"taxId", "taxNumber", "iban", "bic"}

(* C19 as stated: for every other preset key and every value,              *)
(* runValidationPreset returns false, logs a warning naming the key, and   *)
(* does not throw.                                                         *)
C19_UnknownKeyWarns ==
  (PresetCalled /\ input.presetKey \notin C19_KnownKeys)
  => /\ result.outcome = Returns(FALSE)
     /\ result.warned = <<input.presetKey>>

(* C19, amended: for every other preset key and every value,               *)
(* runValidationPreset returns false and does not throw; it logs one       *)
(* warning naming the key when the value is a non-empty string, and logs   *)
(* nothing otherwise.                                                      *)
C19_UnknownKey ==
  (PresetCalled /\ input.presetKey \notin C19_KnownKeys)
  => /\ result.outcome = Returns(FALSE)
     /\ result.invoked = <<>>
     /\ result.warned = IF C18_NoString(input.value) THEN <<>>
                        ELSE <<input.presetKey>>

\* an unknown key with a non-empty string is warned about
C19_Witness ==
  /\ PresetCalled
  /\ input.presetKey = "unknown"
  /\ input.value.kind = "string"
  /\ Len(input.value.chars) >= 1
  /\ result.warned = <<"unknown">>

(* C20: every public validator is total: for every argument, null,         *)
(* undefined and values that are not strings included, it returns a        *)
(* boolean (validateSteuernummer: a tagged outcome) and never raises.      *)
C20_Total ==
  /\ pc \in {"validateGermanTaxId", "validateGermanTaxNumber", "validateIBAN",
             "validateBIC"}
       => result \in {Returns(TRUE), Returns(FALSE)}
  /\ PresetCalled => result.outcome \in {Returns(TRUE), Returns(FALSE)}
  /\ Returned => result.valid \in BOOLEAN

----------------------------------------------------------------------------
(* C21: validateGermanTaxNumber accepts on format alone, as the README     *)
(* says: every string that, without its slashes, hyphens and spaces, is 10 *)
(* to 13 decimal digits that are not all zeros is reported valid.          *)
C21_FormatOnly ==
  LET s == Without(input.chars, Separators)
  IN  (/\ CalledWithString("validateGermanTaxNumber")
       /\ Len(s) \in 10..13
       /\ \A i \in 1..Len(s) : s[i] \in 0..9
       /\ \E i \in 1..Len(s) : s[i] # 0)
      => result = Returns(TRUE)

----------------------------------------------------------------------------
(* The calls of the exported functions validatePruefziffer                 *)
(* (prufziffernverfahren.ts) and normalizeTo13Digits (normalization.ts).   *)
(* For validatePruefziffer, input is the pair of its arguments and result  *)
(* its outcome.                                                            *)

\* a FinanzamtInfo whose verfahren is none of the names of the switch
UnnamedVerfahren == Entry(<<0, 3, 1, 6>>, "SONSTIGE", "Niedersachsen")

Infos == EntryUniverse \cup {UnnamedVerfahren}

\* n digits, all 0 but the k-th, which is d
UnitString(n, k, d) == [i \in 1..n |-> IF i = k THEN d ELSE 0]

\* the strings validatePruefziffer is called with: 13 digits, and the 14
\* digits that normalizeTo13Digits makes of an 11-digit input
ElsterStrings ==
  { ReplaceAt(UnitString(n, k, d), 12, p) :
      n \in {13, 14}, k \in 1..12, d \in 0..9, p \in 0..9 } \cup
  { [i \in 1..13 |-> IF i = 13 THEN p ELSE (a + b * i) % 10] :
      a \in 0..9, b \in 1..MaxBodyStep, p \in 0..9 }

ChecksumInit ==
  /\ BUFA_MAP \in { r \in Registries : Len(r) = 0 }
  /\ pc = "idle"
  /\ input = NoInput
  /\ result = NoResult

CallPruefziffer ==
  /\ pc = "idle"
  /\ \E elster13 \in ElsterStrings, info \in Infos :
       /\ input' = [elster13 |-> elster13, info |-> info]
       /\ result' = Returns(validatePruefziffer(elster13, info))
  /\ pc' = "validatePruefziffer"
  /\ UNCHANGED BUFA_MAP

\* the caller takes the outcome
ReturnPruefziffer ==
  /\ pc = "validatePruefziffer"
  /\ pc' = "idle"
  /\ input' = NoInput
  /\ result' = NoResult
  /\ UNCHANGED BUFA_MAP

\* normalizeTo13Digits (normalization.ts) is exported too: input is the pair
\* of its arguments, result the string it returns or Null
CallNormalizeTo13 ==
  /\ pc = "idle"
  /\ \E digits \in RoutedStrings \cup OtherStrings, info \in Infos :
       /\ input' = [input |-> digits, bufa |-> info.bufa]
       /\ result' = normalizeTo13Digits(digits, info.bufa)
  /\ pc' = "normalizeTo13Digits"
  /\ UNCHANGED BUFA_MAP

\* the caller takes the string
ReturnNormalizeTo13 ==
  /\ pc = "normalizeTo13Digits"
  /\ pc' = "idle"
  /\ input' = NoInput
  /\ result' = NoResult
  /\ UNCHANGED BUFA_MAP

ChecksumNext ==
  \/ CallPruefziffer
  \/ ReturnPruefziffer
  \/ CallNormalizeTo13
  \/ ReturnNormalizeTo13

ChecksumSpec == ChecksumInit /\ [][ChecksumNext]_vars

\* validatePruefziffer has been called
PruefzifferCalled == pc = "validatePruefziffer"

\* the weights of a procedure, as the property gives them
C22_Weights(verfahren) ==
  CASE verfahren = "BERLIN_A" -> <<0, 0, 0, 0, 0, 7, 6, 5, 8, 4, 3, 2>>
    [] verfahren = "BERLIN_B" -> <<0, 0, 2, 9, 0, 8, 7, 6, 5, 4, 3, 2>>
    [] verfahren = "NRW" -> <<0, 3, 2, 1, 0, 7, 6, 5, 4, 3, 2, 1>>

\* the sum of t[1], ..., t[12]
C22_Sum12(t) ==
  t[1] + t[2] + t[3] + t[4] + t[5] + t[6] + t[7] + t[8] + t[9] + t[10]
    + t[11] + t[12]

(* C22: for the procedures BERLIN_A, BERLIN_B and NRW, validatePruefziffer *)
(* returns true exactly when the 13th digit equals (the sum over the 12    *)
(* body digits of digit times weight) mod 11 mod 10, with the weights      *)
(* stated.                                                                 *)
C22_WeightedProcedures ==
  (PruefzifferCalled /\ input.info.verfahren \in {"BERLIN_A", "BERLIN_B", "NRW"})
  => LET e == input.elster13
         w == C22_Weights(input.info.verfahren)
         sum == C22_Sum12([i \in 1..12 |-> e[i] * w[i]])
     IN  result = Returns(e[13] = (sum % 11) % 10)

\* a number whose weighted sum is at least 11 passes the NRW procedure
C22_Witness ==
  /\ PruefzifferCalled
  /\ input.info.verfahren = "NRW"
  /\ C22_Sum12([i \in 1..12 |-> input.elster13[i] * C22_Weights("NRW")[i]]) >= 11
  /\ result = Returns(TRUE)

\* the summand of the body digit at the 0-based position k: the digit times
\* 1 (k even) or 2 (k odd), a product above 9 replaced by the sum of its
\* decimal digits
C23_Term(digit, k) ==
  LET product == IF k % 2 = 0 THEN digit ELSE 2 * digit
  IN  IF product > 9 THEN (product \div 10) + (product % 10) ELSE product

(* C23: for the procedure BAYERN_11ER and for every procedure name other   *)
(* than BERLIN_A, BERLIN_B and NRW, validatePruefziffer returns true       *)
(* exactly when the 13th digit equals (10 - (s mod 10)) mod 10, s being    *)
(* the sum of the summands of the 12 body digits; the sum of the decimal   *)
(* digits of a product above 9 is the product minus 9.                     *)
C23_StandardProcedure ==
  (PruefzifferCalled /\ input.info.verfahren \notin {"BERLIN_A", "BERLIN_B", "NRW"})
  => LET e == input.elster13
         s == C22_Sum12([i \in 1..12 |-> C23_Term(e[i], i - 1)])
     IN  /\ result = Returns(e[13] = (10 - (s % 10)) % 10)
         /\ \A i \in 1..12 :
              (i - 1) % 2 = 1 /\ 2 * e[i] > 9 => C23_Term(e[i], i - 1) = 2 * e[i] - 9

\* a number with a product above 9 passes under a name the switch does not
\* have
C23_Witness ==
  /\ PruefzifferCalled
  /\ input.info.verfahren = "SONSTIGE"
  /\ \E i \in 1..12 : (i - 1) % 2 = 1 /\ input.elster13[i] >= 5
  /\ result = Returns(TRUE)

----------------------------------------------------------------------------
\* normalizeTo13Digits has been called
NormalizeTo13Called == pc = "normalizeTo13Digits"

(* C24: for a 10-digit input and a regional code with state number LL,     *)
(* normalizeTo13Digits returns LL, the input's digits 1-2, the filler 0    *)
(* and the input's digits 3-10; the split of state 05 (4-digit district,   *)
(* 3-digit sequence) gives the same string as the other split, so the      *)
(* result depends on the regional code through LL only.                    *)
C24_TenDigits ==
  (NormalizeTo13Called /\ Len(input.input) = 10)
  => LET d == input.input
         LL == SubSeq(input.bufa, 1, 2)
     IN  /\ result = LL \o SubSeq(d, 1, 2) \o <<0>> \o SubSeq(d, 3, 10)
         /\ \A info \in Infos :
              SubSeq(info.bufa, 1, 2) = LL
                => normalizeTo13Digits(d, info.bufa) = result
         /\ \A info \in Infos :
              SubSeq(normalizeTo13Digits(d, info.bufa), 3, 13) = SubSeq(result, 3, 13)

\* a 10-digit number that is not all zeros, converted for a code of state 05
C24_Witness ==
  /\ NormalizeTo13Called
  /\ Len(input.input) = 10
  /\ \E i \in 7..10 : input.input[i] # 0
  /\ SubSeq(input.bufa, 1, 2) = <<0, 5>>
  /\ Len(result) = 13

----------------------------------------------------------------------------
(* C25: the outcome of validateSteuernummer depends only on the sequence   *)
(* of decimal digits in the string form of its argument: it is the outcome *)
(* for the string of those digits alone, so two arguments with the same    *)
(* digits (a string with spaces, slashes, hyphens or letters, or a number  *)
(* and its decimal string) have the same outcome.                          *)
C25_DigitsOnly ==
  Returned => result = validateSteuernummer(StringInput(InputDigits))

\* a string with a letter among its digits is accepted
C25_Witness ==
  /\ Returned
  /\ input.kind = "string"
  /\ \E i \in 1..Len(input.chars) : input.chars[i] = 65
  /\ result.valid

----------------------------------------------------------------------------
\* the reasons of the four diagnostic categories: invalid length or
\* characters, all zeros, unknown regional code, invalid check digit
C26_Categories ==
  { "Invalid length or characters",
    "Tax number cannot be all zeros",
    "Unknown Finanzamt number - no matching BUFA found",
    "Unknown BUFA code - not a valid German tax office",
    "Unknown BUFA or Finanzamt",
    "Invalid check digit (Pruefziffer) for all possible BUFAs",
    "Invalid check digit (Pruefziffer)",
    "Invalid Pruefziffer" }

(* C26: every reason validateSteuernummer returns belongs to one of the    *)
(* four diagnostic categories; 'Cannot convert to 13-digit format' and     *)
(* 'Invalid length: must be 10, 11, 12, or 13 digits' are returned for no  *)
(* input.                                                                  *)
C26_Reasons ==
  (Returned /\ Has("reason"))
  => /\ result.reason \in C26_Categories
     /\ result.reason \notin { "Cannot convert to 13-digit format",
                               "Invalid length: must be 10, 11, 12, or 13 digits" }

\* a 12-digit number of a known regional code, converted and then rejected
\* for its check digit
C26_Witness ==
  /\ Returned
  /\ DigitCount = 12
  /\ Has("reason")
  /\ result.reason = "Invalid check digit (Pruefziffer)"

----------------------------------------------------------------------------
(* C27: for every non-empty string value, runValidationPreset returns what *)
(* the routed validator returns: validateGermanTaxId for 'taxId',          *)
(* validateGermanTaxNumber (the valid field of validateSteuernummer) for   *)
(* 'taxNumber', validateIBAN for 'iban' and validateBIC for 'bic'.         *)
C27_Routing ==
  (/\ PresetCalled
   /\ input.value.kind = "string"
   /\ Len(input.value.chars) >= 1)
  => /\ input.presetKey = "taxId"
          => /\ result.outcome = validateGermanTaxId(input.value)
             /\ result.invoked = <<"validateGermanTaxId">>
     /\ input.presetKey = "taxNumber"
          => /\ result.outcome = Returns(validateSteuernummer(input.value).valid)
             /\ result.outcome = validateGermanTaxNumber(input.value)
             /\ result.invoked = <<"validateGermanTaxNumber">>
     /\ input.presetKey = "iban"
          => /\ result.outcome = validateIBAN(input.value)
             /\ result.invoked = <<"validateIBAN">>
     /\ input.presetKey = "bic"
          => /\ result.outcome = validateBIC(input.value)
             /\ result.invoked = <<"validateBIC">>

\* a tax number is accepted through the preset 'taxNumber'
C27_Witness ==
  /\ PresetCalled
  /\ input.presetKey = "taxNumber"
  /\ input.value.kind = "string"
  /\ result.outcome = Returns(TRUE)

----------------------------------------------------------------------------
\* the 11-digit strings that share the first ten digits of the argument
C28_Siblings == { Leading(10) \o <<p>> : p \in 0..9 }

\* the argument has 11 digits
C28_ElevenDigits ==
  /\ Returned
  /\ input.kind \in {"string", "number"}
  /\ DigitCount = 11

\* a registry entry of the argument's office number passes the checksum of
\* the 13 digits made of its state number, the argument's digits 1-2, the
\* filler 0 and the argument's digits 3-10: the check digit is the 10th
C28_TenthDigitChecked ==
  \E i \in EntriesWithOffice(Leading(2)) :
    validatePruefziffer(
      SubSeq(BUFA_MAP[i].bufa, 1, 2) \o Leading(2) \o <<0>>
        \o SubSeq(Leading(10), 3, 10),
      BUFA_MAP[i])

----------------------------------------------------------------------------
(* C29: re-validation is stable: for every input of 10, 11, 12 or 13       *)
(* digits that validateSteuernummer accepts, validateSteuernummer of the   *)
(* returned canonical form accepts again and returns the same normalized,  *)
(* bufa and bundesland.                                                    *)
C29_Revalidation ==
  (/\ Returned
   /\ input.kind \in {"string", "number"}
   /\ DigitCount \in 10..13
   /\ result.valid)
  => LET again == validateSteuernummer(StringInput(result.normalized))
     IN  /\ again.valid
         /\ again.normalized = result.normalized
         /\ again.bufa = result.bufa
         /\ again.bundesland = result.bundesland

----------------------------------------------------------------------------
====
